---- MODULE Spec2Model ----
(***************************************************************************)
(* Rate Shopper (src/app.py): the SQLite store of hotels, competitor       *)
(* relationships, import batches and rate observations, the CRUD functions *)
(* over it, the "Salvar Relacionamentos" handler, and the comparative      *)
(* matrix page (matriz_dados and the colouring of its cells).              *)
(*                                                                         *)
(* Every CRUD function opens its own connection and commits before it      *)
(* returns, so each function call is one committed step of the store.      *)
(***************************************************************************)
EXTENDS Integers, Sequences, FiniteSets, Bags, TLC

VARIABLES
    hoteis,          \* table hoteis: set of rows [nome, booking_url]; nome is UNIQUE
    relacionamentos, \* table relacionamentos: bag of rows [hotel_principal, concorrente]
    importacoes,     \* table importacoes: set of rows [id, titulo, hotel, total_registros]
    tarifas,         \* table tarifas: set of rows [id, hotel, data, preco, sequencia]
    seq,             \* sqlite_sequence: last AUTOINCREMENT id given out, per table
    salvar,          \* position of the "Salvar Relacionamentos" handler
    ult,             \* the last function call: its name, arguments and outcome
    tela             \* what the "Matriz Comparativa" page last rendered

vars == <<hoteis, relacionamentos, importacoes, tarifas, seq, salvar, ult, tela>>

store == <<hoteis, relacionamentos, importacoes, tarifas>>

----------------------------------------------------------------------------
(* Input domains.                                                           *)

\* hotel names the operator can type or select
Nomes == {"A", "B", "C"}

\* booking links
URLs == {"u1", "u2"}

\* import titles
Titulos == {"t1", "t2"}

\* stay dates, as day numbers
Datas == {1, 2}

\* prices in cents, as the manual form and a spreadsheet can deliver them
PrecosEntrada == {0, 10000}

\* cap on the AUTOINCREMENT counter of tarifas
MaxTarifaId == 2

\* cap on the AUTOINCREMENT counter of importacoes
MaxImportacaoId == 1

\* cap on the copies of one relationship row
MaxCopias == 2

----------------------------------------------------------------------------
(* Rows and queries.                                                        *)

Hotel(nome, booking_url) == [nome |-> nome, booking_url |-> booking_url]

Rel(hotel_principal, concorrente) ==
    [hotel_principal |-> hotel_principal, concorrente |-> concorrente]

\* SELECT nome FROM hoteis
NomesDe(hs) == {h.nome : h \in hs}

\* the rows of bag b that are in the set linhas, with their copies
Manter(b, linhas) == [r \in DOMAIN b \cap linhas |-> b[r]]

\* the seed of an empty hotel table, scaled to three hotels: every seeded
\* hotel has a link, one hotel has two competitors and is itself the
\* competitor of one of them
hoteis_iniciais == {Hotel("A", "u1"), Hotel("B", "u1"), Hotel("C", "u1")}

relacionamentos_iniciais == <<Rel("A", "B"), Rel("A", "C"), Rel("B", "A")>>

NoOp == [op |-> "nenhuma"]

Idle == [pc |-> "idle"]

TelaVazia == [estado |-> "nenhuma"]

\* criar_relacionamento as it would be if it refused a hotel as its own competitor
criar_relacionamento_sem_proprio(rel, hotel_principal, concorrente) ==
    IF concorrente = hotel_principal THEN rel
    ELSE rel (+) SetToBag({Rel(hotel_principal, concorrente)})

\* INSERT INTO relacionamentos (hotel_principal, concorrente)
criar_relacionamento(rel, hotel_principal, concorrente) ==
    rel (+) SetToBag({Rel(hotel_principal, concorrente)})

\* excluir_relacionamentos as it would be with the wrong column in its WHERE
excluir_relacionamentos_coluna(rel, hotel_principal) ==
    Manter(rel, {r \in DOMAIN rel : r.concorrente # hotel_principal})

\* DELETE FROM relacionamentos WHERE hotel_principal = ?
excluir_relacionamentos(rel, hotel_principal) ==
    Manter(rel, {r \in DOMAIN rel : r.hotel_principal # hotel_principal})

\* SELECT concorrente FROM relacionamentos WHERE hotel_principal = ?
\* as the bag of the names returned (one per row)
obter_concorrentes(rel, hotel_principal) ==
    [c \in {r.concorrente : r \in {x \in DOMAIN rel : x.hotel_principal = hotel_principal}}
        |-> rel[Rel(hotel_principal, c)]]

RECURSIVE InserirTodos(_, _)
InserirTodos(rel, rows) ==
    IF rows = <<>> THEN rel
    ELSE InserirTodos(criar_relacionamento(rel, Head(rows).hotel_principal,
                                           Head(rows).concorrente), Tail(rows))

----------------------------------------------------------------------------
(* The store after init_database() and inserir_dados_iniciais() on a fresh  *)
(* database file.                                                           *)

Init ==
    /\ hoteis = hoteis_iniciais
    /\ relacionamentos = InserirTodos(EmptyBag, relacionamentos_iniciais)
    /\ importacoes = {}
    /\ tarifas = {}
    /\ seq = [importacoes |-> 0, tarifas |-> 0]
    /\ salvar = Idle
    /\ ult = NoOp
    /\ tela = TelaVazia

----------------------------------------------------------------------------
(* Hotels.                                                                  *)

\* the four tables as one record
DB == [hoteis |-> hoteis, relacionamentos |-> relacionamentos,
       importacoes |-> importacoes, tarifas |-> tarifas]

\* criar_hotel as it would be with INSERT OR REPLACE
criar_hotel_substitui(hs, nome, booking_url) ==
    [hoteis |-> {h \in hs : h.nome # nome} \cup {Hotel(nome, booking_url)}, res |-> TRUE]

\* criar_hotel: INSERT INTO hoteis; the UNIQUE constraint on nome raises
\* IntegrityError, which the function turns into False with nothing written
criar_hotel(hs, nome, booking_url) ==
    IF nome \in NomesDe(hs)
    THEN [hoteis |-> hs, res |-> FALSE]
    ELSE [hoteis |-> hs \cup {Hotel(nome, booking_url)}, res |-> TRUE]

CriarHotel(nome, booking_url) ==
    /\ salvar = Idle
    /\ LET r == criar_hotel(hoteis, nome, booking_url) IN
        /\ hoteis' = r.hoteis
        /\ ult' = [op |-> "criar_hotel", nome |-> nome, booking_url |-> booking_url,
                   res |-> r.res, antes |-> DB]
    /\ UNCHANGED <<relacionamentos, importacoes, tarifas, seq, salvar, tela>>

\* atualizar_hotel: UPDATE hoteis SET nome = ?, booking_url = ? WHERE nome = ?
\* No other table is touched. Renaming onto another existing name violates
\* UNIQUE: the exception leaves the function before commit, nothing written.
atualizar_hotel(hs, nome_antigo, nome_novo, booking_url) ==
    IF nome_antigo \notin NomesDe(hs) THEN [hoteis |-> hs, res |-> "ok"]
    ELSE IF nome_novo # nome_antigo /\ nome_novo \in NomesDe(hs)
    THEN [hoteis |-> hs, res |-> "IntegrityError"]
    ELSE [hoteis |-> {h \in hs : h.nome # nome_antigo} \cup {Hotel(nome_novo, booking_url)},
          res |-> "ok"]

AtualizarHotel(nome_antigo, nome_novo, booking_url) ==
    /\ salvar = Idle
    /\ LET r == atualizar_hotel(hoteis, nome_antigo, nome_novo, booking_url) IN
        /\ hoteis' = r.hoteis
        /\ ult' = [op |-> "atualizar_hotel", nome_antigo |-> nome_antigo,
                   nome_novo |-> nome_novo, res |-> r.res]
    /\ UNCHANGED <<relacionamentos, importacoes, tarifas, seq, salvar, tela>>

\* excluir_hotel as it would be if its DELETE on relacionamentos matched the
\* principal column only
excluir_hotel_so_principal(db, nome) ==
    [tarifas         |-> {t \in db.tarifas : t.hotel # nome},
     relacionamentos |-> Manter(db.relacionamentos,
                            {r \in DOMAIN db.relacionamentos : r.hotel_principal # nome}),
     importacoes     |-> {i \in db.importacoes : i.hotel # nome},
     hoteis          |-> {h \in db.hoteis : h.nome # nome}]

\* excluir_hotel: four DELETE statements, one commit
excluir_hotel(db, nome) ==
    [tarifas         |-> {t \in db.tarifas : t.hotel # nome},
     relacionamentos |-> Manter(db.relacionamentos,
                            {r \in DOMAIN db.relacionamentos :
                                ~(r.hotel_principal = nome \/ r.concorrente = nome)}),
     importacoes     |-> {i \in db.importacoes : i.hotel # nome},
     hoteis          |-> {h \in db.hoteis : h.nome # nome}]

ExcluirHotel(nome) ==
    /\ salvar = Idle
    /\ LET d == excluir_hotel(DB, nome) IN
        /\ hoteis' = d.hoteis
        /\ relacionamentos' = d.relacionamentos
        /\ importacoes' = d.importacoes
        /\ tarifas' = d.tarifas
        /\ ult' = [op |-> "excluir_hotel", nome |-> nome, antes |-> DB]
    /\ UNCHANGED <<seq, salvar, tela>>

\* inserir_dados_iniciais, run at the top of every script run: seeds hotels
\* and relationships when the hotel table is empty
InserirDadosIniciais ==
    /\ salvar = Idle
    /\ hoteis = {}
    /\ \A i \in DOMAIN relacionamentos_iniciais :
          CopiesIn(relacionamentos_iniciais[i], relacionamentos) < MaxCopias
    /\ hoteis' = hoteis_iniciais
    /\ relacionamentos' = InserirTodos(relacionamentos, relacionamentos_iniciais)
    /\ ult' = [op |-> "inserir_dados_iniciais"]
    /\ UNCHANGED <<importacoes, tarifas, seq, salvar, tela>>

----------------------------------------------------------------------------
(* Relationships.                                                           *)

\* "Limpar Relacionamentos": excluir_relacionamentos(hotel_limpar)
LimparRelacionamentos(hotel_limpar) ==
    /\ salvar = Idle
    /\ relacionamentos' = excluir_relacionamentos(relacionamentos, hotel_limpar)
    /\ ult' = [op |-> "excluir_relacionamentos", hotel_principal |-> hotel_limpar,
               apagadas |-> BagCardinality(relacionamentos)
                              - BagCardinality(relacionamentos'),
               antes |-> DB]
    /\ UNCHANGED <<hoteis, importacoes, tarifas, seq, salvar, tela>>

\* the call record of a save: its arguments, the table when it began, and
\* whether the call completed just before it was a save with the same arguments
Salvando(hotel_principal, novo) ==
    [op |-> "salvar", hotel_principal |-> hotel_principal, novo |-> novo,
     antes |-> relacionamentos,
     vez |-> IF /\ ult.op = "salvar"
                /\ ult.hotel_principal = hotel_principal
                /\ ult.novo = novo
             THEN 2 ELSE 1]

\* "Salvar Relacionamentos", first step: excluir_relacionamentos(hotel_principal)
\* commits the delete; the loop over concorrentes_selecionados follows
SalvarExcluir(hotel_principal, concorrentes_selecionados) ==
    /\ salvar = Idle
    /\ hotel_principal \in NomesDe(hoteis)
    /\ concorrentes_selecionados \subseteq NomesDe(hoteis)
    /\ relacionamentos' = excluir_relacionamentos(relacionamentos, hotel_principal)
    /\ salvar' = IF concorrentes_selecionados = {} THEN Idle
                 ELSE [pc |-> "inserindo", hotel_principal |-> hotel_principal,
                       restantes |-> concorrentes_selecionados]
    /\ ult' = Salvando(hotel_principal, concorrentes_selecionados)
    /\ UNCHANGED <<hoteis, importacoes, tarifas, seq, tela>>

\* one iteration of the loop: criar_relacionamento(hotel_principal, concorrente),
\* committed on its own; after the last one the handler is done
SalvarCriar(concorrente) ==
    /\ salvar.pc = "inserindo"
    /\ concorrente \in salvar.restantes
    /\ relacionamentos' = criar_relacionamento(relacionamentos, salvar.hotel_principal,
                                               concorrente)
    /\ salvar' = IF salvar.restantes = {concorrente} THEN Idle
                 ELSE [salvar EXCEPT !.restantes = @ \ {concorrente}]
    /\ UNCHANGED <<hoteis, importacoes, tarifas, seq, ult, tela>>

----------------------------------------------------------------------------
(* Import batches.                                                          *)

Importacao(id, titulo, hotel, total_registros) ==
    [id |-> id, titulo |-> titulo, hotel |-> hotel, total_registros |-> total_registros]

\* criar_importacao: INSERT INTO importacoes; returns cursor.lastrowid. The
\* UNIQUE constraint on titulo raises IntegrityError out of the function.
\* No handler of the application calls it.
CriarImportacao(titulo, hotel, total_registros) ==
    /\ salvar = Idle
    /\ seq.importacoes < MaxImportacaoId
    /\ IF titulo \in {i.titulo : i \in importacoes}
       THEN /\ UNCHANGED <<importacoes, seq>>
            /\ ult' = [op |-> "criar_importacao", res |-> "IntegrityError"]
       ELSE /\ importacoes' = importacoes \cup
                 {Importacao(seq.importacoes + 1, titulo, hotel, total_registros)}
            /\ seq' = [seq EXCEPT !.importacoes = @ + 1]
            /\ ult' = [op |-> "criar_importacao", res |-> seq.importacoes + 1]
    /\ UNCHANGED <<hoteis, relacionamentos, tarifas, salvar, tela>>

\* excluir_importacao: deletes the batch row when the id exists; the
\* tarifas table is not touched
excluir_importacao(imps, importacao_id) ==
    IF \E i \in imps : i.id = importacao_id
    THEN {i \in imps : i.id # importacao_id}
    ELSE imps

\* the handler as the docstring of excluir_importacao has it: the batch and
\* the rates of its hotel
ExcluirImportacao_com_tarifas(importacao_id) ==
    /\ salvar = Idle
    /\ importacoes' = excluir_importacao(importacoes, importacao_id)
    /\ tarifas' = {t \in tarifas :
                     \A i \in importacoes : i.id = importacao_id => t.hotel # i.hotel}
    /\ ult' = [op |-> "excluir_importacao", id |-> importacao_id,
               apagadas |-> Cardinality(importacoes) - Cardinality(importacoes'),
               antes |-> DB]
    /\ UNCHANGED <<hoteis, relacionamentos, seq, salvar, tela>>

ExcluirImportacao(importacao_id) ==
    /\ salvar = Idle
    /\ importacoes' = excluir_importacao(importacoes, importacao_id)
    /\ ult' = [op |-> "excluir_importacao", id |-> importacao_id,
               apagadas |-> Cardinality(importacoes) - Cardinality(importacoes'),
               antes |-> DB]
    /\ UNCHANGED <<hoteis, relacionamentos, tarifas, seq, salvar, tela>>

----------------------------------------------------------------------------
(* Rate observations.                                                       *)

Tarifa(id, hotel, data, preco, sequencia) ==
    [id |-> id, hotel |-> hotel, data |-> data, preco |-> preco, sequencia |-> sequencia]

\* criar_tarifa: INSERT INTO tarifas (hotel, data, preco, sequencia)
criar_tarifa(ts, id, hotel, data, preco, sequencia) ==
    ts \cup {Tarifa(id, hotel, data, preco, sequencia)}

\* the form as it would be without its check of the price
FormTarifa_sem_verificacao(hotel_tarifa, data_tarifa, preco_tarifa, sequencia_tarifa) ==
    /\ salvar = Idle
    /\ hotel_tarifa \in NomesDe(hoteis)
    /\ seq.tarifas < MaxTarifaId
    /\ tarifas' = criar_tarifa(tarifas, seq.tarifas + 1, hotel_tarifa, data_tarifa,
                               preco_tarifa, sequencia_tarifa)
    /\ seq' = [seq EXCEPT !.tarifas = @ + 1]
    /\ ult' = [op |-> "form_tarifa", hotel |-> hotel_tarifa, data |-> data_tarifa,
               preco |-> preco_tarifa, sequencia |-> sequencia_tarifa,
               res |-> "salva", antes |-> tarifas]
    /\ UNCHANGED <<hoteis, relacionamentos, importacoes, salvar, tela>>

\* form_tarifa, "Salvar Tarifa": the form saves only a price above zero
FormTarifa(hotel_tarifa, data_tarifa, preco_tarifa, sequencia_tarifa) ==
    /\ salvar = Idle
    /\ hotel_tarifa \in NomesDe(hoteis)
    /\ IF preco_tarifa > 0
       THEN /\ seq.tarifas < MaxTarifaId
            /\ tarifas' = criar_tarifa(tarifas, seq.tarifas + 1, hotel_tarifa, data_tarifa,
                                       preco_tarifa, sequencia_tarifa)
            /\ seq' = [seq EXCEPT !.tarifas = @ + 1]
            /\ ult' = [op |-> "form_tarifa", hotel |-> hotel_tarifa, data |-> data_tarifa,
                       preco |-> preco_tarifa, sequencia |-> sequencia_tarifa,
                       res |-> "salva", antes |-> tarifas]
       ELSE /\ UNCHANGED <<tarifas, seq>>
            /\ ult' = [op |-> "form_tarifa", hotel |-> hotel_tarifa, data |-> data_tarifa,
                       preco |-> preco_tarifa, sequencia |-> sequencia_tarifa,
                       res |-> "rejeitada", antes |-> tarifas]
    /\ UNCHANGED <<hoteis, relacionamentos, importacoes, salvar, tela>>

\* excluir_tarifa as it would be with id <= ? in its WHERE
excluir_tarifa_ate(ts, tarifa_id) == {t \in ts : t.id > tarifa_id}

\* excluir_tarifa: DELETE FROM tarifas WHERE id = ?
excluir_tarifa(ts, tarifa_id) == {t \in ts : t.id # tarifa_id}

ExcluirTarifa(tarifa_id) ==
    /\ salvar = Idle
    /\ tarifas' = excluir_tarifa(tarifas, tarifa_id)
    /\ ult' = [op |-> "excluir_tarifa", id |-> tarifa_id,
               apagadas |-> Cardinality(tarifas) - Cardinality(tarifas'),
               antes |-> DB]
    /\ UNCHANGED <<hoteis, relacionamentos, importacoes, seq, salvar, tela>>

\* "LIMPAR TODAS AS TARIFAS": DELETE FROM tarifas
LimparTarifas ==
    /\ salvar = Idle
    /\ tarifas' = {}
    /\ ult' = [op |-> "limpar_tarifas"]
    /\ UNCHANGED <<hoteis, relacionamentos, importacoes, seq, salvar, tela>>

\* A price cell of the spreadsheet after astype(str): its characters.
\* An empty cell is read as NaN and becomes the text nan.
TextosPreco ==
    {<<"0">>, <<"1", "0", "0">>, <<"1", "0", "0", ",", "0">>, <<"x">>, <<"n", "a", "n">>}

\* most rows in one spreadsheet
MaxLinhas == 2

Digitos == [i \in 1..10 |-> i - 1]

Caracteres == <<"0", "1", "2", "3", "4", "5", "6", "7", "8", "9">>

EhDigito(c) == \E i \in DOMAIN Caracteres : Caracteres[i] = c

ValorDigito(c) == Digitos[CHOOSE i \in DOMAIN Caracteres : Caracteres[i] = c]

\* str.replace(',', '.')
TrocarVirgula(txt) == [i \in DOMAIN txt |-> IF txt[i] = "," THEN "." ELSE txt[i]]

RECURSIVE Inteiro(_)
Inteiro(ds) ==
    IF ds = <<>> THEN 0
    ELSE 10 * Inteiro(SubSeq(ds, 1, Len(ds) - 1)) + ValorDigito(ds[Len(ds)])

\* float(txt), in cents, for decimal literals of digits with at most one
\* point and at most two decimals, and for the text nan: -2 stands for NaN,
\* -1 for the ValueError of any other text
paraFloat(txt) ==
    IF txt = <<"n", "a", "n">> THEN -2 ELSE
    LET pontos == {i \in DOMAIN txt : txt[i] = "."}
        p == IF pontos = {} THEN Len(txt) + 1 ELSE CHOOSE i \in pontos : TRUE
        int == SubSeq(txt, 1, p - 1)
        frac == SubSeq(txt, p + 1, Len(txt))
    IN IF /\ Cardinality(pontos) <= 1
          /\ \A i \in DOMAIN txt : i \notin pontos => EhDigito(txt[i])
          /\ Len(int) + Len(frac) >= 1
          /\ Len(frac) <= 2
       THEN 100 * Inteiro(int)
              + (IF Len(frac) = 0 THEN 0
                 ELSE IF Len(frac) = 1 THEN 10 * Inteiro(frac) ELSE Inteiro(frac))
       ELSE -1

\* df_processado['preco'].astype(str).str.replace(',', '.').astype(float)
ConverterPreco(txt) == paraFloat(TrocarVirgula(txt))

\* importar_tarifas_excel: one INSERT per row, sequencia from the frame
\* (always 1), one commit after the loop; returns len(df_excel)
RECURSIVE importar_tarifas_excel(_, _, _, _)
importar_tarifas_excel(ts, ultimo_id, hotel, df_final) ==
    IF df_final = <<>> THEN ts
    ELSE importar_tarifas_excel(
             ts \cup {Tarifa(ultimo_id + 1, hotel, Head(df_final).data,
                             Head(df_final).preco, Head(df_final).sequencia)},
             ultimo_id + 1, hotel, Tail(df_final))

\* the call record of an import
Importando(hotel_importar, planilha, res, qtd_importadas) ==
    [op |-> "importar", hotel |-> hotel_importar, planilha |-> planilha, res |-> res,
     qtd_importadas |-> qtd_importadas, antes |-> tarifas]

\* the frame handed to importar_tarifas_excel
df_final(planilha) ==
    [i \in DOMAIN planilha |->
        [data |-> planilha[i].data, preco |-> ConverterPreco(planilha[i].preco),
         sequencia |-> 1]]

\* the handler as it would be if a successful import registered its batch
\* with criar_importacao(titulo_importacao, hotel_importar, len(df_final))
ImportarExcel_com_lote(hotel_importar, planilha, titulo_importacao) ==
    /\ salvar = Idle
    /\ hotel_importar \in NomesDe(hoteis)
    /\ \A i \in DOMAIN planilha : ConverterPreco(planilha[i].preco) >= 0
    /\ seq.tarifas + Len(planilha) <= MaxTarifaId
    /\ tarifas' = importar_tarifas_excel(tarifas, seq.tarifas, hotel_importar,
                                         df_final(planilha))
    /\ importacoes' = importacoes \cup
          {Importacao(seq.importacoes + 1, titulo_importacao, hotel_importar,
                      Len(planilha))}
    /\ seq' = [tarifas |-> seq.tarifas + Len(planilha),
               importacoes |-> seq.importacoes + 1]
    /\ ult' = Importando(hotel_importar, planilha, "ok", Len(planilha))
    /\ UNCHANGED <<hoteis, relacionamentos, salvar, tela>>

\* the handler as it would be if it left out the rows it cannot store
ImportarExcel_pulando(hotel_importar, planilha, titulo_importacao) ==
    LET boas == SelectSeq(df_final(planilha), LAMBDA l : l.preco >= 0)
    IN /\ salvar = Idle
       /\ hotel_importar \in NomesDe(hoteis)
       /\ seq.tarifas + Len(planilha) <= MaxTarifaId
       /\ tarifas' = importar_tarifas_excel(tarifas, seq.tarifas, hotel_importar, boas)
       /\ seq' = [seq EXCEPT !.tarifas = @ + Len(boas)]
       /\ ult' = Importando(hotel_importar, planilha, "ok", Len(boas))
       /\ UNCHANGED <<hoteis, relacionamentos, importacoes, salvar, tela>>

\* "Importar Excel": the whole column of prices is converted before anything
\* is written; a cell that is no number raises ValueError, caught as
\* "Erro ao processar arquivo", and nothing is imported. The INSERT of a NaN
\* price violates NOT NULL on preco: IntegrityError leaves
\* importar_tarifas_excel before its commit, caught as "Erro ao importar",
\* and the rows inserted before it are rolled back with the connection.
ImportarExcel(hotel_importar, planilha, titulo_importacao) ==
    /\ salvar = Idle
    /\ hotel_importar \in NomesDe(hoteis)
    /\ IF \E i \in DOMAIN planilha : ConverterPreco(planilha[i].preco) = -1
       THEN /\ UNCHANGED <<tarifas, seq>>
            /\ ult' = Importando(hotel_importar, planilha, "ValueError", 0)
       ELSE IF \E i \in DOMAIN planilha : ConverterPreco(planilha[i].preco) = -2
       THEN /\ UNCHANGED <<tarifas, seq>>
            /\ ult' = Importando(hotel_importar, planilha, "IntegrityError", 0)
       ELSE /\ seq.tarifas + Len(planilha) <= MaxTarifaId
            /\ tarifas' = importar_tarifas_excel(tarifas, seq.tarifas,
                                                 hotel_importar, df_final(planilha))
            /\ seq' = [seq EXCEPT !.tarifas = @ + Len(planilha)]
            /\ ult' = Importando(hotel_importar, planilha, "ok", Len(planilha))
    /\ UNCHANGED <<hoteis, relacionamentos, importacoes, salvar, tela>>

\* the spreadsheets of one to MaxLinhas rows
Planilhas ==
    UNION {[1..n -> [data : Datas, preco : TextosPreco]] : n \in 1..MaxLinhas}

----------------------------------------------------------------------------

Next ==
    \/ \E nome \in Nomes, booking_url \in URLs : CriarHotel(nome, booking_url)
    \/ \E nome_antigo \in Nomes, nome_novo \in Nomes, booking_url \in URLs :
          AtualizarHotel(nome_antigo, nome_novo, booking_url)
    \/ \E nome \in Nomes : ExcluirHotel(nome)
    \/ InserirDadosIniciais
    \/ \E h \in NomesDe(hoteis) : LimparRelacionamentos(h)
    \/ \E h \in Nomes, novo \in SUBSET Nomes : SalvarExcluir(h, novo)
    \/ \E c \in Nomes : SalvarCriar(c)
    \/ \E titulo \in Titulos, hotel \in NomesDe(hoteis) :
          CriarImportacao(titulo, hotel, 1)
    \/ \E id \in 1..MaxImportacaoId : ExcluirImportacao(id)
    \/ \E h \in Nomes, d \in Datas, p \in PrecosEntrada, s \in {1, 2} :
          FormTarifa(h, d, p, s)
    \/ \E id \in 1..MaxTarifaId : ExcluirTarifa(id)
    \/ LimparTarifas
    \/ \E h \in Nomes, planilha \in Planilhas, titulo \in Titulos :
          ImportarExcel(h, planilha, titulo)

Spec == Init /\ [][Next]_vars

\* the relationships page alone, on the seeded store
NextRel ==
    \/ \E h \in NomesDe(hoteis) : LimparRelacionamentos(h)
    \/ \E h \in Nomes, novo \in SUBSET Nomes : SalvarExcluir(h, novo)
    \/ \E c \in Nomes : SalvarCriar(c)

SpecRel == Init /\ [][NextRel]_vars

----------------------------------------------------------------------------
(* The page "Matriz Comparativa". Prices are in cents; a date is a day       *)
(* number. The comparisons with 0.95 and 1.05 are taken in exact arithmetic. *)

Vazio == [tipo |-> "vazio"]

Preco(p) == [tipo |-> "preco", preco |-> p]

\* the text "X→Y": the two bounds as printed, in whole units
Faixa(a, b) == [tipo |-> "faixa", min |-> a, max |-> b]

Maior(S) == CHOOSE x \in S : \A y \in S : y <= x

Menor(S) == CHOOSE x \in S : \A y \in S : x <= y

\* f"{x:.0f}" of a price of x cents: the nearest whole unit, a tie going to
\* the even one
formato_0f(x) ==
    LET q == x \div 100
        r == x % 100
    IN IF r < 50 THEN q
       ELSE IF r > 50 THEN q + 1
       ELSE IF q % 2 = 0 THEN q ELSE q + 1

\* tarifas_df rows with data_inicio <= data <= data_fim
tarifas_periodo(ts, data_inicio, data_fim) ==
    {t \in ts : t.data >= data_inicio /\ t.data <= data_fim}

\* hoteis_matriz as it would be with the primary appended after the competitors
hoteis_matriz_principal_no_fim(hotel_principal, concorrentes) ==
    concorrentes \o <<hotel_principal>>

\* [hotel_principal] + concorrentes
hoteis_matriz(hotel_principal, concorrentes) == <<hotel_principal>> \o concorrentes

Elementos(lista) == {lista[i] : i \in DOMAIN lista}

\* tarifas_matriz as it would be without the isin filter
tarifas_matriz_sem_filtro(tp, hm) == tp

\* tarifas_periodo[tarifas_periodo['hotel'].isin(hoteis_matriz)]
tarifas_matriz(tp, hm) == {t \in tp : t.hotel \in Elementos(hm)}

\* tarifas_matriz[tarifas_matriz['hotel'] == hotel]
tarifas_hotel(tm, hotel) == {t \in tm : t.hotel = hotel}

\* tarifas_data as it would be if it took the hotel's rows up to the day
tarifas_data_ate(th, data) == {t \in th : t.data <= data}

\* tarifas_hotel[tarifas_hotel['data'] == data]
tarifas_data(th, data) == {t \in th : t.data = data}

\* datas_periodo as it would be with the end day left out
datas_periodo_sem_fim(data_inicio, data_fim) == data_inicio..(data_fim - 1)

\* pd.date_range(data_inicio, data_fim).date
datas_periodo(data_inicio, data_fim) == data_inicio..data_fim

\* the division by preco_min raises ZeroDivisionError when it is zero
DivisaoPorZero(td) == Cardinality(td) >= 2 /\ Menor({t.preco : t \in td}) = 0

\* the branch of one (hotel, data): None, the one price, or, of several,
\* the text "min→max" when variacao_pct > 0 and preco_min otherwise.
\* variacao_pct = (preco_max - preco_min) / preco_min * 100 has the sign of
\* (preco_max - preco_min) * preco_min.
celula(td) ==
    IF Cardinality(td) = 0 THEN Vazio
    ELSE IF Cardinality(td) = 1 THEN Preco((CHOOSE t \in td : TRUE).preco)
    ELSE LET precos == {t.preco : t \in td}
             preco_min == Menor(precos)
             preco_max == Maior(precos)
         IN IF (preco_max - preco_min) * preco_min > 0
            THEN Faixa(formato_0f(preco_min), formato_0f(preco_max))
            ELSE Preco(preco_min)

\* matriz_dados[hotel][data] for every hotel of hoteis_matriz and every day
matriz_dados(tm, hm, data_inicio, data_fim) ==
    [hotel \in Elementos(hm) |->
        [data \in datas_periodo(data_inicio, data_fim) |->
            celula(tarifas_data(tarifas_hotel(tm, hotel), data))]]

\* float(valor.split('→')[0]) of a range text, float(valor) of a price
valor_num(valor) == IF valor.tipo = "faixa" THEN 100 * valor.min ELSE valor.preco

\* cor_comparacao as it would be with the bounds of the band included
cor_comparacao_inclusiva(valor_concorrente_num, valor_principal_num) ==
    IF 100 * valor_concorrente_num <= 95 * valor_principal_num THEN "ameaca"
    ELSE IF 100 * valor_concorrente_num >= 105 * valor_principal_num THEN "seguro"
    ELSE "neutro"

\* the colour of a competitor's cell against the primary's number
cor_comparacao(valor_concorrente_num, valor_principal_num) ==
    IF 100 * valor_concorrente_num < 95 * valor_principal_num THEN "ameaca"
    ELSE IF 100 * valor_concorrente_num > 105 * valor_principal_num THEN "seguro"
    ELSE "neutro"

\* cor_celula as it would be if a competitor without a primary price to
\* compare with fell into the neutral band
cor_celula_neutro_padrao(md, hotel_principal, hotel, data) ==
    LET valor == md[hotel][data]
        valor_principal == md[hotel_principal][data]
    IN IF valor.tipo = "vazio" THEN "vazio"
       ELSE IF hotel = hotel_principal THEN "principal"
       ELSE IF valor_principal.tipo # "vazio"
       THEN cor_comparacao(valor_num(valor), valor_num(valor_principal))
       ELSE "neutro"

\* cor_celula as it would be without the branch of the primary's own row
cor_celula_sem_principal(md, hotel_principal, hotel, data) ==
    LET valor == md[hotel][data]
        valor_principal == md[hotel_principal][data]
    IN IF valor.tipo = "vazio" THEN "vazio"
       ELSE IF valor_principal.tipo # "vazio"
       THEN cor_comparacao(valor_num(valor), valor_num(valor_principal))
       ELSE "sem_cor"

\* how one cell of the table is drawn
cor_celula(md, hotel_principal, hotel, data) ==
    LET valor == md[hotel][data]
        valor_principal == md[hotel_principal][data]
    IN IF valor.tipo = "vazio" THEN "vazio"
       ELSE IF hotel = hotel_principal THEN "principal"
       ELSE IF valor_principal.tipo # "vazio"
       THEN cor_comparacao(valor_num(valor), valor_num(valor_principal))
       ELSE "sem_cor"

TemRepetido(lista) == \E i, j \in DOMAIN lista : i < j /\ lista[i] = lista[j]

\* the page, from the two tables, the selections and the list returned by
\* obter_concorrentes
pagina_matriz(ts, hotel_principal, data_inicio, data_fim, concorrentes) ==
    LET pedido == [hotel_principal |-> hotel_principal, data_inicio |-> data_inicio,
                   data_fim |-> data_fim, tarifas_df |-> ts,
                   concorrentes |-> concorrentes]
        tp == tarifas_periodo(ts, data_inicio, data_fim)
        hm == hoteis_matriz(hotel_principal, concorrentes)
        tm == tarifas_matriz(tp, hm)
        dias == datas_periodo(data_inicio, data_fim)
        md == matriz_dados(tm, hm, data_inicio, data_fim)
    IN IF ts = {}
       THEN [estado |-> "aviso", msg |-> "Cadastre tarifas primeiro!", pedido |-> pedido]
       ELSE IF data_inicio > data_fim
       THEN [estado |-> "aviso", msg |-> "Data de inicio deve ser anterior a data de fim!",
             pedido |-> pedido]
       ELSE IF tp = {}
       THEN [estado |-> "aviso", msg |-> "Nenhuma tarifa encontrada no periodo selecionado!",
             pedido |-> pedido]
       ELSE IF tm = {}
       THEN [estado |-> "aviso",
             msg |-> "Nenhuma tarifa encontrada para os hoteis selecionados no periodo!",
             pedido |-> pedido]
       ELSE IF \E hotel \in Elementos(hm), data \in dias :
                  DivisaoPorZero(tarifas_data(tarifas_hotel(tm, hotel), data))
       THEN [estado |-> "erro", msg |-> "ZeroDivisionError", pedido |-> pedido]
       ELSE IF TemRepetido(hm)
       THEN [estado |-> "erro", msg |-> "ValueError", pedido |-> pedido]
       ELSE [estado |-> "matriz", pedido |-> pedido, hoteis_matriz |-> hm,
             matriz_dados |-> md,
             cores |-> [hotel \in Elementos(hm) |->
                          [data \in dias |-> cor_celula(md, hotel_principal, hotel, data)]]]

\* the lists obter_concorrentes can return: the rows of the primary in any order
ListasDeConcorrentes(rel, hotel_principal) ==
    LET b == obter_concorrentes(rel, hotel_principal)
        n == BagCardinality(b)
    IN {l \in [1..n -> DOMAIN b] :
          \A c \in DOMAIN b : Cardinality({i \in 1..n : l[i] = c}) = b[c]}

\* a rerun of the script starts from an empty page
NovaExecucao ==
    /\ tela # TelaVazia
    /\ tela' = TelaVazia
    /\ UNCHANGED <<hoteis, relacionamentos, importacoes, tarifas, seq, salvar, ult>>

\* one run of the page with the selections made
MatrizComparativa(hotel_principal, data_inicio, data_fim, concorrentes) ==
    /\ salvar = Idle
    /\ tela = TelaVazia
    /\ hotel_principal \in NomesDe(hoteis)
    /\ concorrentes \in ListasDeConcorrentes(relacionamentos, hotel_principal)
    /\ tela' = pagina_matriz(tarifas, hotel_principal, data_inicio, data_fim, concorrentes)
    /\ UNCHANGED <<hoteis, relacionamentos, importacoes, tarifas, seq, salvar, ult>>

\* prices in cents of the observations drawn for the page
PrecosMatriz == <<0, 9499, 9500, 10000, 10500, 10501>>

\* hotels that have observations drawn (C has none)
HoteisComTarifa == <<"A", "B">>

\* most observations in a drawn table
MaxObs == 3

NLinhasObs == Len(HoteisComTarifa) * Cardinality(Datas) * Len(PrecosMatriz)

\* the k-th row that can be drawn, 1 <= k <= NLinhasObs, given id
LinhaObs(k, id) ==
    LET h == (k - 1) % Len(HoteisComTarifa)
        d == ((k - 1) \div Len(HoteisComTarifa)) % Cardinality(Datas)
        p == (k - 1) \div (Len(HoteisComTarifa) * Cardinality(Datas))
    IN Tarifa(id, HoteisComTarifa[h + 1], d + 1, PrecosMatriz[p + 1], 1)

\* the tables of n rows, ids 1..n, each multiset of rows once
TabelasObs(n) ==
    {{LinhaObs(l[i], i) : i \in 1..n} :
        l \in {f \in [1..n -> 1..NLinhasObs] : \A i \in 1..(n - 1) : f[i] <= f[i + 1]}}

InitMatriz ==
    /\ hoteis = hoteis_iniciais
    /\ relacionamentos = InserirTodos(EmptyBag, relacionamentos_iniciais)
    /\ importacoes = {}
    /\ \E n \in 0..MaxObs :
          /\ tarifas \in TabelasObs(n)
          /\ seq = [importacoes |-> 0, tarifas |-> n]
    /\ salvar = Idle
    /\ ult = NoOp
    /\ tela = TelaVazia

NextMatriz ==
    \/ \E h \in NomesDe(hoteis), di \in Datas, df \in Datas :
          \E cs \in ListasDeConcorrentes(relacionamentos, h) :
              MatrizComparativa(h, di, df, cs)
    \/ NovaExecucao

SpecMatriz == InitMatriz /\ [][NextMatriz]_vars

----------------------------------------------------------------------------
(* The matrix page: properties of the grid, under SpecMatriz.               *)

TemMatriz == tela.estado = "matriz"

\* the request was rendered and is valid: start <= end (the hotel set always
\* holds the primary)
PedidoValido ==
    /\ tela.estado # "nenhuma"
    /\ tela.pedido.data_inicio <= tela.pedido.data_fim

\* {primary} and its competitors, from the store
HoteisDoPedido ==
    {tela.pedido.hotel_principal}
        \cup BagToSet(obter_concorrentes(relacionamentos, tela.pedido.hotel_principal))

\* the days from start to end, both included
DiasDoPedido ==
    {d \in (Menor(Datas) - 1)..(Maior(Datas) + 1) :
        tela.pedido.data_inicio <= d /\ d <= tela.pedido.data_fim}

\* the prices stored for hotel h on day d in the table the page read
Observacoes(h, d) == {t \in tela.pedido.tarifas_df : t.hotel = h /\ t.data = d}

PrecosDe(obs) == {t.preco : t \in obs}

ChavesDaGrade ==
    {<<h, d>> : h \in DOMAIN tela.matriz_dados, d \in DiasDoPedido}

\* C5: a grid that is built has one cell for every hotel of {primary} and
\* its competitors and every day from start to end inclusive, no more and no
\* fewer: (#hotels) x (#days) cells, also where nothing was observed.
C5_FormaDaGrade ==
    TemMatriz =>
        /\ DOMAIN tela.matriz_dados = HoteisDoPedido
        /\ \A h \in HoteisDoPedido : DOMAIN tela.matriz_dados[h] = DiasDoPedido
        /\ Cardinality(ChavesDaGrade)
             = Cardinality(HoteisDoPedido)
                 * (tela.pedido.data_fim - tela.pedido.data_inicio + 1)
        /\ \A h \in HoteisDoPedido, d \in DiasDoPedido :
              tela.matriz_dados[h][d].tipo \in {"vazio", "preco", "faixa"}

\* a grid of three hotels over two days with a hotel and a day without any
\* observation
C5_Witness ==
    /\ TemMatriz
    /\ Cardinality(HoteisDoPedido) = 3
    /\ Cardinality(DiasDoPedido) = 2
    /\ \E h \in HoteisDoPedido : \A d \in DiasDoPedido : Observacoes(h, d) = {}
    /\ \E h \in HoteisDoPedido, d \in DiasDoPedido :
          Observacoes(h, d) # {} /\ Observacoes(h, 3 - d) = {}

\* C6: every cell of the grid is Empty when its hotel has no observation on
\* its day, Single(p) when it has exactly one, of price p, and, when it has
\* two or more of differing prices, the Range whose bounds are exactly the
\* smallest and the largest of those prices.
C6_CelulaExata ==
    TemMatriz =>
        \A h \in DOMAIN tela.matriz_dados : \A d \in DOMAIN tela.matriz_dados[h] :
            LET obs == Observacoes(h, d)
                cel == tela.matriz_dados[h][d]
            IN /\ obs = {} => cel = Vazio
               /\ Cardinality(obs) = 1 => cel = Preco(Menor(PrecosDe(obs)))
               /\ (Cardinality(obs) >= 2 /\ Cardinality(PrecosDe(obs)) >= 2) =>
                     /\ cel.tipo = "faixa"
                     /\ 100 * cel.min = Menor(PrecosDe(obs))
                     /\ 100 * cel.max = Maior(PrecosDe(obs))

\* C7: a cell whose hotel has two or more observations on its day, all of
\* the same price p, is Single(p), and no cell is a Range whose two bounds
\* are equal.
C7_FaixaNuncaNula ==
    TemMatriz =>
        \A h \in DOMAIN tela.matriz_dados : \A d \in DOMAIN tela.matriz_dados[h] :
            LET obs == Observacoes(h, d)
                cel == tela.matriz_dados[h][d]
            IN /\ (Cardinality(obs) >= 2 /\ Cardinality(PrecosDe(obs)) = 1) =>
                     cel = Preco(Menor(PrecosDe(obs)))
               /\ cel.tipo = "faixa" => cel.min # cel.max

\* C8: the cell of (h, d) is the resolution of the observations of hotel h
\* dated d and of nothing else, whatever the table holds for other hotels,
\* for other days of the range or for days outside it; and the grid has no
\* cell for a day outside the range.
C8_SoDependeDoParHotelData ==
    TemMatriz =>
        \A h \in DOMAIN tela.matriz_dados : \A d \in DOMAIN tela.matriz_dados[h] :
            /\ tela.matriz_dados[h][d] = celula(Observacoes(h, d))
            /\ tela.pedido.data_inicio <= d /\ d <= tela.pedido.data_fim

\* a one-day grid, with a priced cell, built from a table that also holds an
\* observation of the same hotel outside the range and one of another hotel
C8_Witness ==
    /\ TemMatriz
    /\ tela.pedido.data_inicio = tela.pedido.data_fim
    /\ \E h \in DOMAIN tela.matriz_dados :
          /\ tela.matriz_dados[h][tela.pedido.data_inicio].tipo # "vazio"
          /\ \E t \in tela.pedido.tarifas_df :
                t.hotel = h /\ t.data # tela.pedido.data_inicio
          /\ \E t \in tela.pedido.tarifas_df : t.hotel # h

\* no observation of the selected hotels is dated within the range
SemTarifasNoPedido == \A h \in HoteisDoPedido, d \in DiasDoPedido : Observacoes(h, d) = {}

\* C9 as stated: a valid request without any observation for its hotels in
\* its range still gets the grid of the full shape, every cell Empty.
C9_GradeVaziaConstruida ==
    (PedidoValido /\ SemTarifasNoPedido) =>
        /\ TemMatriz
        /\ \A h \in HoteisDoPedido, d \in DiasDoPedido : tela.matriz_dados[h][d] = Vazio

\* C9 as amended: a valid request without any observation for its hotels in
\* its range gets a warning and no grid; a grid is built only when at least
\* one of its cells has an observation.
C9_SemTarifasAviso ==
    /\ (PedidoValido /\ SemTarifasNoPedido) => tela.estado = "aviso"
    /\ TemMatriz =>
          \E h \in HoteisDoPedido, d \in DiasDoPedido : tela.matriz_dados[h][d] # Vazio

\* the warning for a primary without competitors and without observations in
\* a range where other hotels have them
C9_Witness ==
    /\ PedidoValido
    /\ SemTarifasNoPedido
    /\ tela.estado = "aviso"
    /\ \E t \in tela.pedido.tarifas_df :
          tela.pedido.data_inicio <= t.data /\ t.data <= tela.pedido.data_fim

ClasseDaRazao(c, p) ==
    IF 100 * c < 95 * p THEN "ameaca"
    ELSE IF 100 * c > 105 * p THEN "seguro"
    ELSE "neutro"

\* the smallest price observed for hotel h on day d
MenorPreco(h, d) == Menor(PrecosDe(Observacoes(h, d)))

\* C11: the number taken from a cell for the comparison is exactly the
\* smallest price observed for its hotel on its day (the one price of a
\* Single, the minimum of a Range), so a compared cell gets the class of the
\* true minimum prices, for whole and for fractional prices alike.
C11_EscalarMinimo ==
    TemMatriz =>
        \A h \in DOMAIN tela.matriz_dados : \A d \in DOMAIN tela.matriz_dados[h] :
            LET cel == tela.matriz_dados[h][d]
                ref == tela.matriz_dados[tela.pedido.hotel_principal][d]
            IN /\ cel.tipo # "vazio" => valor_num(cel) = MenorPreco(h, d)
               /\ (/\ h # tela.pedido.hotel_principal
                   /\ cel.tipo # "vazio"
                   /\ ref.tipo # "vazio"
                   /\ MenorPreco(tela.pedido.hotel_principal, d) > 0) =>
                     tela.cores[h][d]
                       = ClasseDaRazao(MenorPreco(h, d),
                                       MenorPreco(tela.pedido.hotel_principal, d))

Classes == {"ameaca", "seguro", "neutro"}

ConcorrentesNaGrade == DOMAIN tela.matriz_dados \ {tela.pedido.hotel_principal}

\* C12: in a grid, a competitor's cell of a day on which the competitor or
\* the primary has no observation is drawn without any of the three classes
\* (Unknown), never as Neutral; the cell of a hotel without observation on a
\* day is Empty.
C12_VazioSemClasse ==
    TemMatriz =>
        \A h \in ConcorrentesNaGrade : \A d \in DOMAIN tela.matriz_dados[h] :
            LET semConcorrente == Observacoes(h, d) = {}
                semPrincipal == Observacoes(tela.pedido.hotel_principal, d) = {}
            IN /\ semConcorrente <=> tela.matriz_dados[h][d] = Vazio
               /\ semPrincipal <=> tela.matriz_dados[tela.pedido.hotel_principal][d] = Vazio
               /\ (semConcorrente \/ semPrincipal) => tela.cores[h][d] \notin Classes
               /\ semConcorrente => tela.cores[h][d] = "vazio"
               /\ (semPrincipal /\ ~semConcorrente) => tela.cores[h][d] = "sem_cor"

\* the primary priced on the first day only, a competitor priced above the
\* band on the first day (Safe) and priced on the second (Unknown), another
\* competitor without any price (Unknown)
C12_Witness ==
    /\ TemMatriz
    /\ tela.pedido.data_inicio = 1
    /\ tela.pedido.data_fim = 2
    /\ \E h \in ConcorrentesNaGrade :
          /\ tela.cores[h][1] = "seguro"
          /\ tela.matriz_dados[h][2] # Vazio
          /\ tela.matriz_dados[tela.pedido.hotel_principal][2] = Vazio
          /\ tela.cores[h][2] = "sem_cor"
    /\ \E h \in ConcorrentesNaGrade : tela.cores[h][1] = "vazio"

C14_OrdemDasLinhas ==
    TemMatriz =>
        LET linhas == tela.hoteis_matriz
            lista == tela.pedido.concorrentes
        IN /\ Len(linhas) = Len(lista) + 1
           /\ linhas[1] = tela.pedido.hotel_principal
           /\ \A i \in DOMAIN lista : linhas[i + 1] = lista[i]
           /\ \A i \in DOMAIN linhas : linhas[i] \in DOMAIN tela.matriz_dados
           /\ \A h \in DOMAIN tela.matriz_dados : \E i \in DOMAIN linhas : linhas[i] = h

\* a grid built from a list of two competitors handed over in the order
\* opposite to that of their names
C14_Witness ==
    /\ TemMatriz
    /\ Len(tela.pedido.concorrentes) = 2
    /\ tela.pedido.concorrentes = <<"C", "B">>
    /\ tela.hoteis_matriz = <<"A", "C", "B">>

\* C22: the page never ends in an exception, whatever the stored prices,
\* those of zero included; a hotel and day of the request with two or more
\* observations the smallest of which is zero gets a Single or a Range cell.
C22_MatrizNuncaFalha ==
    /\ tela.estado # "erro"
    /\ PedidoValido =>
          \A h \in HoteisDoPedido, d \in DiasDoPedido :
              (/\ Cardinality(Observacoes(h, d)) >= 2
               /\ MenorPreco(h, d) = 0) =>
                  /\ TemMatriz
                  /\ tela.matriz_dados[h][d].tipo \in {"preco", "faixa"}

----------------------------------------------------------------------------
(* excluir_hotel on any store: the stores are drawn from small tables, with  *)
(* rows of hotels that are not registered and repeated relationship rows     *)
(* among them. Every such store is one the functions above can leave behind  *)
(* in the database file.                                                     *)

\* most relationship rows in a drawn store
MaxRelLinhas == 2

ParesRel == {Rel(p, c) : p \in Nomes, c \in Nomes}

\* the bags of at most n rows of ParesRel
RECURSIVE BagsDeRel(_)
BagsDeRel(n) ==
    IF n = 0 THEN {EmptyBag}
    ELSE LET menores == BagsDeRel(n - 1)
         IN menores \cup {b (+) SetToBag({r}) : b \in menores, r \in ParesRel}

TarifasDadas ==
    {Tarifa(1, "A", 1, 10000, 1), Tarifa(2, "B", 1, 10000, 1), Tarifa(3, "A", 2, 0, 1)}

ImportacoesDadas == {Importacao(1, "t1", "A", 1), Importacao(2, "t2", "B", 2)}

InitExcluir ==
    /\ hoteis \in SUBSET hoteis_iniciais
    /\ relacionamentos \in BagsDeRel(MaxRelLinhas)
    /\ importacoes \in SUBSET ImportacoesDadas
    /\ tarifas \in SUBSET TarifasDadas
    /\ seq = [importacoes |-> 2, tarifas |-> 3]
    /\ salvar = Idle
    /\ ult = NoOp
    /\ tela = TelaVazia

NextExcluir == \E nome \in Nomes : ExcluirHotel(nome)

SpecExcluir == InitExcluir /\ [][NextExcluir]_vars

Menciona(r, nome) == r.hotel_principal = nome \/ r.concorrente = nome

\* C1: after excluir_hotel(H) no hotel row, rate, relationship (as principal
\* or as competitor) or import batch of H is left, and the rows of the four
\* tables that do not mention H are exactly those of the store before the call.
C1_ExcluirHotel ==
    ult.op = "excluir_hotel" =>
        LET H == ult.nome
            antes == ult.antes
        IN /\ H \notin NomesDe(hoteis)
           /\ \A t \in tarifas : t.hotel # H
           /\ \A r \in DOMAIN relacionamentos : ~Menciona(r, H)
           /\ \A i \in importacoes : i.hotel # H
           /\ hoteis = {h \in antes.hoteis : h.nome # H}
           /\ tarifas = {t \in antes.tarifas : t.hotel # H}
           /\ importacoes = {i \in antes.importacoes : i.hotel # H}
           /\ DOMAIN relacionamentos \subseteq DOMAIN antes.relacionamentos
           /\ \A r \in DOMAIN antes.relacionamentos :
                 ~Menciona(r, H) => CopiesIn(r, relacionamentos) = antes.relacionamentos[r]

\* excluir_hotel removed rows of H from all four tables, one of them a
\* relationship with H as competitor, and rows of other hotels are left in
\* all four
C1_Witness ==
    /\ ult.op = "excluir_hotel"
    /\ ult.nome \in NomesDe(ult.antes.hoteis)
    /\ \E t \in ult.antes.tarifas : t.hotel = ult.nome
    /\ \E i \in ult.antes.importacoes : i.hotel = ult.nome
    /\ \E r \in DOMAIN ult.antes.relacionamentos :
          r.concorrente = ult.nome /\ r.hotel_principal # ult.nome
    /\ hoteis # {} /\ tarifas # {} /\ importacoes # {} /\ relacionamentos # EmptyBag

----------------------------------------------------------------------------
(* Relationships: properties of the save path, under SpecRel.               *)

SalvarCompleto == ult.op = "salvar" /\ salvar = Idle

\* the rows of rel whose principal is not h
DeOutros(rel, h) == Manter(rel, {r \in DOMAIN rel : r.hotel_principal # h})

\* C2: when a save of new_set for primary H has completed, obter_concorrentes(H)
\* returns exactly the members of new_set, each once (H itself included when
\* new_set holds it, no prior competitor left over), and the rows of every
\* other primary are those of the table the save started from.
C2_SubstituicaoTotal ==
    SalvarCompleto =>
        /\ obter_concorrentes(relacionamentos, ult.hotel_principal) = SetToBag(ult.novo)
        /\ DeOutros(relacionamentos, ult.hotel_principal)
             = DeOutros(ult.antes, ult.hotel_principal)

\* a completed save that dropped prior competitors, stored the primary itself
\* and left another primary's rows in place
C2_Witness ==
    /\ SalvarCompleto
    /\ ult.hotel_principal \in ult.novo
    /\ BagToSet(obter_concorrentes(ult.antes, ult.hotel_principal)) \ ult.novo # {}
    /\ ult.novo \ BagToSet(obter_concorrentes(ult.antes, ult.hotel_principal)) # {}
    /\ DeOutros(relacionamentos, ult.hotel_principal) # EmptyBag

\* C3: when the save of new_set for H completes right after a completed save
\* with the same H and new_set, the table is the one the first save left: the
\* same rows for H, and no pair of H stored twice.
C3_Idempotente ==
    (SalvarCompleto /\ ult.vez = 2) =>
        /\ obter_concorrentes(relacionamentos, ult.hotel_principal)
             = obter_concorrentes(ult.antes, ult.hotel_principal)
        /\ relacionamentos = ult.antes
        /\ \A c \in Nomes :
              CopiesIn(Rel(ult.hotel_principal, c), relacionamentos) <= 1

\* the second of two equal saves, of two competitors, has completed
C3_Witness ==
    /\ SalvarCompleto
    /\ ult.vez = 2
    /\ Cardinality(ult.novo) >= 2

\* C4: in every committed state from the delete step of a save on, the
\* competitors of the primary are the complete prior set or the complete
\* new_set.
C4_Atomico ==
    ult.op = "salvar" =>
        \/ obter_concorrentes(relacionamentos, ult.hotel_principal)
             = obter_concorrentes(ult.antes, ult.hotel_principal)
        \/ obter_concorrentes(relacionamentos, ult.hotel_principal) = SetToBag(ult.novo)

----------------------------------------------------------------------------
(* The store functions on drawn stores: hotel tables of any links, and the  *)
(* rows of the other tables that name hotels of the table.                  *)

\* the hotel tables over Nomes and URLs, nome being UNIQUE
TabelasDeHoteis ==
    {hs \in SUBSET {Hotel(n, u) : n \in Nomes, u \in URLs} :
        \A a, b \in hs : a.nome = b.nome => a = b}

InitLoja ==
    /\ hoteis \in TabelasDeHoteis
    /\ relacionamentos
         = Manter(InserirTodos(EmptyBag, relacionamentos_iniciais),
                  {Rel(p, c) : p \in NomesDe(hoteis), c \in NomesDe(hoteis)})
    /\ importacoes \in SUBSET {i \in ImportacoesDadas : i.hotel \in NomesDe(hoteis)}
    /\ tarifas \in SUBSET {t \in TarifasDadas : t.hotel \in NomesDe(hoteis)}
    /\ seq = [importacoes |-> 2, tarifas |-> 3]
    /\ salvar = Idle
    /\ ult = NoOp
    /\ tela = TelaVazia

\* form_hotel alone
NextHotel == \E nome \in Nomes, booking_url \in URLs : CriarHotel(nome, booking_url)

SpecHotel == InitLoja /\ [][NextHotel]_vars

\* C15: criar_hotel of a name the table holds returns False and leaves the
\* four tables as they were, the link of the existing hotel included;
\* criar_hotel of a name the table does not hold returns True and adds that
\* one hotel with the given link, nothing else changing.
C15_HotelDuplicado ==
    ult.op = "criar_hotel" =>
        /\ importacoes = ult.antes.importacoes
        /\ tarifas = ult.antes.tarifas
        /\ relacionamentos = ult.antes.relacionamentos
        /\ IF ult.nome \in NomesDe(ult.antes.hoteis)
           THEN /\ ult.res = FALSE
                /\ hoteis = ult.antes.hoteis
                /\ \A h \in ult.antes.hoteis :
                      h.nome = ult.nome => Hotel(ult.nome, h.booking_url) \in hoteis
           ELSE /\ ult.res = TRUE
                /\ hoteis = ult.antes.hoteis \cup {Hotel(ult.nome, ult.booking_url)}
                /\ Cardinality(hoteis) = Cardinality(ult.antes.hoteis) + 1

\* criar_hotel of an existing name with another link was refused
C15_Witness ==
    /\ ult.op = "criar_hotel"
    /\ ult.res = FALSE
    /\ \E h \in hoteis : h.nome = ult.nome /\ h.booking_url # ult.booking_url
    /\ Cardinality(hoteis) >= 2

\* ids a delete can be asked for: those given out and the next one
IdsDeTarifa == 1..(Cardinality(TarifasDadas) + 1)

IdsDeImportacao == 1..(Cardinality(ImportacoesDadas) + 1)

\* the four deletes, with any name or id
NextApagar ==
    \/ \E nome \in Nomes : ExcluirHotel(nome)
    \/ \E hotel_limpar \in Nomes : LimparRelacionamentos(hotel_limpar)
    \/ \E tarifa_id \in IdsDeTarifa : ExcluirTarifa(tarifa_id)
    \/ \E importacao_id \in IdsDeImportacao : ExcluirImportacao(importacao_id)

SpecApagar == InitLoja /\ [][NextApagar]_vars

Inalterada == DB = ult.antes

C16_WitnessHotel ==
    /\ ult.op = "excluir_hotel"
    /\ ult.nome \notin NomesDe(ult.antes.hoteis)
    /\ hoteis # {} /\ relacionamentos # EmptyBag /\ tarifas # {}

C16_WitnessRelacionamentos ==
    /\ ult.op = "excluir_relacionamentos"
    /\ \A r \in DOMAIN ult.antes.relacionamentos : r.hotel_principal # ult.hotel_principal
    /\ relacionamentos # EmptyBag

C16_WitnessImportacao ==
    /\ ult.op = "excluir_importacao"
    /\ \A i \in ult.antes.importacoes : i.id # ult.id
    /\ importacoes # {}

----------------------------------------------------------------------------
(* The rates page on the seeded store: the manual form and the import.      *)

\* the script runs again: the outcome of the last call is no longer shown
Rerun ==
    /\ ult # NoOp
    /\ ult' = NoOp
    /\ UNCHANGED <<hoteis, relacionamentos, importacoes, tarifas, seq, salvar, tela>>

\* the price text is a decimal number once its comma is a point
Numerico(txt) ==
    LET t == TrocarVirgula(txt)
    IN /\ \A i \in DOMAIN t : EhDigito(t[i]) \/ t[i] = "."
       /\ Cardinality({i \in DOMAIN t : t[i] = "."}) <= 1
       /\ \E i \in DOMAIN t : EhDigito(t[i])

\* the sheets all of whose prices are numbers
PlanilhasNumericas == {pl \in Planilhas : \A i \in DOMAIN pl : Numerico(pl[i].preco)}

\* the import tab alone, for the hotels of HoteisComTarifa, one call per run
NextImportar ==
    \/ /\ ult = NoOp
       /\ \E h \in Elementos(HoteisComTarifa), planilha \in Planilhas, titulo \in Titulos :
             ImportarExcel(h, planilha, titulo)
    \/ Rerun

SpecImportar == Init /\ [][NextImportar]_vars

\* the manual form and the import of sheets of numbers, one call per run
NextTarifas ==
    \/ /\ ult = NoOp
       /\ \E h \in Elementos(HoteisComTarifa), d \in Datas, p \in PrecosEntrada,
             s \in {1, 2} :
             FormTarifa(h, d, p, s)
    \/ /\ ult = NoOp
       /\ \E h \in Elementos(HoteisComTarifa), planilha \in PlanilhasNumericas,
             titulo \in Titulos :
             ImportarExcel(h, planilha, titulo)
    \/ Rerun

SpecTarifas == Init /\ [][NextTarifas]_vars

\* C17: an import of a sheet with a row whose price is not a number after
\* the comma is made a point, or with a row whose insert fails (an empty
\* price), fails as a whole and the rate table is the one before the import;
\* an import of a sheet whose rows are all valid adds one rate per row, of
\* the hotel chosen, the row's date and price and sequence 1, and returns
\* the number of rows.
C17_TudoOuNada ==
    ult.op = "importar" =>
        IF \E i \in DOMAIN ult.planilha : ~Numerico(ult.planilha[i].preco)
        THEN /\ ult.res # "ok"
             /\ tarifas = ult.antes
        ELSE /\ ult.res = "ok"
             /\ ult.qtd_importadas = Len(ult.planilha)
             /\ ult.antes \subseteq tarifas
             /\ Cardinality(tarifas \ ult.antes) = Len(ult.planilha)
             /\ \A t \in tarifas \ ult.antes : t.hotel = ult.hotel /\ t.sequencia = 1
             /\ \A i \in DOMAIN ult.planilha :
                   \E t \in tarifas \ ult.antes :
                       /\ t.data = ult.planilha[i].data
                       /\ t.preco = ConverterPreco(ult.planilha[i].preco)

\* an import of a sheet with a good first row and a bad second row failed on
\* a table that already held a rate
C17_Witness ==
    /\ ult.op = "importar"
    /\ Len(ult.planilha) = 2
    /\ Numerico(ult.planilha[1].preco)
    /\ ~Numerico(ult.planilha[2].preco)
    /\ ult.res # "ok"
    /\ tarifas # {}

\* the failure inside importar_tarifas_excel: a good row, then an empty price
C17_WitnessInsert ==
    /\ ult.op = "importar"
    /\ Len(ult.planilha) = 2
    /\ Numerico(ult.planilha[1].preco)
    /\ ult.res = "IntegrityError"

\* the import of two valid rows
C17_WitnessOk ==
    /\ ult.op = "importar"
    /\ ult.res = "ok"
    /\ ult.qtd_importadas = 2

\* C19: the manual form saves a rate exactly when its price is above zero,
\* and then adds that one rate; a price of zero is rejected and the rate
\* table stays as it was. (The import stores a price of zero: C19_Witness.)
C19_PrecoManualPositivo ==
    ult.op = "form_tarifa" =>
        /\ ult.res = "salva" <=> ult.preco > 0
        /\ ult.res = "rejeitada" <=> ult.preco <= 0
        /\ ult.res = "rejeitada" => tarifas = ult.antes
        /\ ult.res = "salva" =>
              /\ ult.antes \subseteq tarifas
              /\ Cardinality(tarifas \ ult.antes) = 1
              /\ \A t \in tarifas \ ult.antes :
                    /\ t.preco = ult.preco /\ t.preco > 0
                    /\ t.hotel = ult.hotel /\ t.data = ult.data
                    /\ t.sequencia = ult.sequencia

\* the form has rejected a price of zero on a table to which an import had
\* added a rate of price zero
C19_Witness ==
    /\ ult.op = "form_tarifa"
    /\ ult.preco = 0
    /\ ult.res = "rejeitada"
    /\ \E t \in tarifas : t.preco = 0

\* the form has saved a rate
C19_WitnessSalva ==
    /\ ult.op = "form_tarifa"
    /\ ult.res = "salva"
    /\ Cardinality(tarifas) = 2

\* C20: no two stored rates have the same hotel, date and sequence number.
C20_SequenciaDistingue ==
    \A t1, t2 \in tarifas :
        (t1.hotel = t2.hotel /\ t1.data = t2.data /\ t1.sequencia = t2.sequencia)
            => t1 = t2

----------------------------------------------------------------------------
(* Hotels created, renamed and removed on the seeded store, with the        *)
(* relationship rows of the seed and a manual rate of one date, price and   *)
(* sequence; one call per run.                                              *)

NextIntegridade ==
    \/ /\ ult = NoOp
       /\ \E nome \in Nomes, booking_url \in URLs : CriarHotel(nome, booking_url)
    \/ /\ ult = NoOp
       /\ \E nome_antigo \in Nomes, nome_novo \in Nomes, booking_url \in URLs :
             AtualizarHotel(nome_antigo, nome_novo, booking_url)
    \/ /\ ult = NoOp
       /\ \E nome \in Nomes : ExcluirHotel(nome)
    \/ /\ ult = NoOp
       /\ InserirDadosIniciais
    \/ /\ ult = NoOp
       /\ \E hotel_limpar \in NomesDe(hoteis) : LimparRelacionamentos(hotel_limpar)
    \/ /\ ult = NoOp
       /\ \E h \in Nomes : FormTarifa(h, 1, 10000, 1)
    \/ Rerun

SpecIntegridade == Init /\ [][NextIntegridade]_vars

\* C21: in every state, the principal and the competitor of every
\* relationship, the hotel of every rate and the hotel of every import batch
\* are names of the hotel table.
C21_IntegridadeReferencial ==
    /\ \A r \in DOMAIN relacionamentos :
          r.hotel_principal \in NomesDe(hoteis) /\ r.concorrente \in NomesDe(hoteis)
    /\ \A t \in tarifas : t.hotel \in NomesDe(hoteis)
    /\ \A i \in importacoes : i.hotel \in NomesDe(hoteis)

\* C23: under the import tab, whatever is imported, the batch table stays
\* empty and its counter at zero (no batch of the title, the hotel or the
\* row count of an import is written), and the hotels and the relationships
\* are those of the seed: an import changes the rate table only.
C23_ImportarSoTarifas ==
    /\ importacoes = {}
    /\ seq.importacoes = 0
    /\ hoteis = hoteis_iniciais
    /\ relacionamentos = InserirTodos(EmptyBag, relacionamentos_iniciais)
    /\ ult.op = "importar" =>
          \A i \in importacoes :
              ~(i.hotel = ult.hotel /\ i.total_registros = ult.qtd_importadas)

\* two imports have succeeded, the last of one row, and no batch is stored
C23_Witness ==
    /\ ult.op = "importar"
    /\ ult.res = "ok"
    /\ ult.qtd_importadas = 1
    /\ ult.antes # {}
    /\ Cardinality(tarifas) = 2
    /\ importacoes = {}

====
